---- MODULE Spec2Model ----
(***************************************************************************)
(* Model of pkg/cli/scan.go: the `wolfictl scan` command groups the        *)
(* findings of each scanned apk into a findingsTree (location ->           *)
(* package ID -> findings) and renders the tree as text.                   *)
(*                                                                         *)
(* Strings are TLA+ strings; Go compares and prefix-tests them bytewise,   *)
(* so every string that is compared is given its bytes (see bytes).       *)
(* A rendered text is kept as the sequence of its lines, a line as the     *)
(* record of the values fmt.Sprintf places in it.  The box-drawing and     *)
(* emoji glyphs of the source are written in ASCII.                        *)
(***************************************************************************)
EXTENDS Naturals, Sequences, FiniteSets, TLC

\* Longest list of findings one scan returns.
MaxLen == 3

(***************************************************************************)
(* Strings                                                                 *)
(***************************************************************************)

\* The bytes of the strings the program compares (sort) or tests for a
\* prefix (strings.HasPrefix).
bytes ==
    ""       :> << >> @@
    "/a"     :> <<47, 97>> @@
    "/a/b"   :> <<47, 97, 47, 98>> @@
    "foo"    :> <<102, 111, 111>> @@
    "bar"    :> <<98, 97, 114>> @@
    "baz"    :> <<98, 97, 122>> @@
    "CVE"    :> <<67, 86, 69>> @@
    "CVE-"   :> <<67, 86, 69, 45>> @@
    "CVE-1"  :> <<67, 86, 69, 45, 49>> @@
    "CVE-2"  :> <<67, 86, 69, 45, 50>> @@
    "CVE-3"  :> <<67, 86, 69, 45, 51>> @@
    "GHSA-"  :> <<71, 72, 83, 65, 45>> @@
    "GHSA-x" :> <<71, 72, 83, 65, 45, 120>> @@
    "GHSA-y" :> <<71, 72, 83, 65, 45, 121>> @@
    "OSV-1"  :> <<79, 83, 86, 45, 49>> @@
    "OSV-9"  :> <<79, 83, 86, 45, 57>>

\* Go's < on byte sequences: lexicographic, a proper prefix is smaller.
RECURSIVE bytesLess(_, _)
bytesLess(a, b) ==
    IF b = << >> THEN FALSE
    ELSE IF a = << >> THEN TRUE
    ELSE IF Head(a) # Head(b) THEN Head(a) < Head(b)
    ELSE bytesLess(Tail(a), Tail(b))

\* s < t on Go strings.
stringLess(s, t) == bytesLess(bytes[s], bytes[t])

\* strings.HasPrefix(s, prefix)
HasPrefix(s, prefix) ==
    /\ Len(bytes[s]) >= Len(bytes[prefix])
    /\ SubSeq(bytes[s], 1, Len(bytes[prefix])) = bytes[prefix]

(***************************************************************************)
(* Sorting                                                                 *)
(***************************************************************************)

\* the elements of a slice
Range(s) == {s[i] : i \in DOMAIN s}

\* One step of Go's insertion sort: x, appended to the sorted t, is swapped
\* left while less[x, its left neighbour].  (less is the less function of
\* the call, as a function of two elements.)
insert(t, x, less) ==
    LET stop == {j \in 1..Len(t) : ~less[x, t[j]]}
        p == IF stop = {} THEN 0 ELSE CHOOSE j \in stop : \A k \in stop : k <= j
    IN SubSeq(t, 1, p) \o <<x>> \o SubSeq(t, p + 1, Len(t))

\* sort.SliceStable on a slice of fewer than 20 elements: insertion sort.
SliceStable(s, less) ==
    LET sorted[i \in 0..Len(s)] ==
            IF i = 0 THEN << >> ELSE insert(sorted[i - 1], s[i], less)
    IN sorted[Len(s)]

\* The keys as enumerated, not sorted.
sortStringsLeftOut(s) == s

\* sort.Strings
sortStrings(s) ==
    SliceStable(s, [a, b \in Range(s) |-> stringLess(a, b)])

\* Every order in which a map's key set S may be enumerated (lo.Keys ranges
\* over a Go map, whose iteration order is unspecified).
Keys(S) ==
    {k \in [1..Cardinality(S) -> S] : \A i, j \in DOMAIN k : k[i] = k[j] => i = j}

(***************************************************************************)
(* Inputs: what scan.APK may find in an apk                                *)
(***************************************************************************)

Package(id, name, version, type, location) ==
    [ID |-> id, Name |-> name, Version |-> version, Type |-> type,
     Location |-> location]

Vulnerability(id, aliases, severity, fixedVersion) ==
    [ID |-> id, Aliases |-> aliases, Severity |-> severity,
     FixedVersion |-> fixedVersion]

Finding(package, vulnerability) ==
    [Package |-> package, Vulnerability |-> vulnerability]

pkgFoo  == Package("p1", "foo", "1.0", "apk", "/a")
\* another package at the same location, whose Name sorts first
pkgBar  == Package("p2", "bar", "2.0", "go-module", "/a")
\* another ID with the Name of pkgFoo, at the same location
pkgFoo3 == Package("p3", "foo", "3.0", "apk", "/a")
\* the ID of pkgFoo with other metadata, at the same location
pkgBaz  == Package("p1", "baz", "1.1", "apk", "/a")
\* the ID of pkgFoo with other metadata, at another location
pkgSub  == Package("p1", "bar", "1.0", "apk", "/a/b")
\* no field set
pkgNone == Package("", "", "", "", "")

vulnGHSA  == Vulnerability("GHSA-x", <<"GHSA-x", "CVE-1">>, "High", "1.1")
\* the ID of vulnGHSA in another record, with two CVE aliases
vulnGHSA2 == Vulnerability("GHSA-x", <<"CVE", "CVE-3", "CVE-1">>, "Critical", "")
vulnCVE   == Vulnerability("CVE-2", << >>, "Low", "")
vulnOSV   == Vulnerability("OSV-9", <<"GHSA-y">>, "Medium", "2.0")
vulnNone  == Vulnerability("", <<"OSV-1">>, "Unknown", "")

\* The findings an apk may hold.
Findings ==
    << Finding(pkgFoo, vulnGHSA),
       Finding(pkgFoo, vulnGHSA2),
       Finding(pkgFoo, vulnCVE),
       Finding(pkgBar, vulnCVE),
       Finding(pkgFoo3, vulnOSV),
       Finding(pkgBaz, vulnOSV),
       Finding(pkgSub, vulnGHSA),
       Finding(pkgNone, vulnNone) >>

\* The apk files the arguments may name: a file is the sequence of the
\* indexes in Findings of what scan.APK reports for it.
APKs == UNION {[1..n -> 1..Len(Findings)] : n \in 0..MaxLen}

\* scan.APK(apkFile)
scanAPK(a) == [i \in 1..Len(a) |-> Findings[a[i]]]

(***************************************************************************)
(* Styles and line formatting                                              *)
(***************************************************************************)

styleSubtle     == "#999999"
styleNegligible == "#999999"
styleLow        == "#00ff00"
styleMedium     == "#ffff00"
styleHigh       == "#ff9900"
styleCritical   == "#ff0000"
\* text that no style was applied to
unstyled        == "none"

\* style.Render(s)
Render(style, s) == [style |-> style, body |-> s]

renderSeverity(severity) ==
    CASE severity = "Negligible" -> Render(styleNegligible, severity)
      [] severity = "Low"        -> Render(styleLow, severity)
      [] severity = "Medium"     -> Render(styleMedium, severity)
      [] severity = "High"       -> Render(styleHigh, severity)
      [] severity = "Critical"   -> Render(styleCritical, severity)
      [] OTHER                   -> Render(unstyled, severity)

\* termlink.Link(text, url); no link is url = << >>.
Link(text, url) == [text |-> text, url |-> url]

\* hyperlinkVulnerabilityID without its test of the flag.
hyperlinkVulnerabilityIDAlways(supported, id) ==
    IF HasPrefix(id, "CVE-")
    THEN Link(id, <<"https://nvd.nist.gov/vuln/detail/", id>>)
    ELSE IF HasPrefix(id, "GHSA-")
    THEN Link(id, <<"https://github.com/advisories/", id>>)
    ELSE Link(id, << >>)

\* hyperlinkVulnerabilityID(id), reading the flag termSupportsHyperlinks
hyperlinkVulnerabilityID(supported, id) ==
    IF ~supported THEN Link(id, << >>)
    ELSE IF HasPrefix(id, "CVE-")
    THEN Link(id, <<"https://nvd.nist.gov/vuln/detail/", id>>)
    ELSE IF HasPrefix(id, "GHSA-")
    THEN Link(id, <<"https://github.com/advisories/", id>>)
    ELSE Link(id, << >>)

\* The loop of renderVulnerabilityID with its break left out: the last
\* CVE alias is kept.
cveAliasLast(aliases) ==
    LET cve == {i \in 1..Len(aliases) : HasPrefix(aliases[i], "CVE-")}
    IN IF cve = {} THEN ""
       ELSE aliases[CHOOSE i \in cve : \A j \in cve : j <= i]

\* The loop of renderVulnerabilityID: cveID after it.
RECURSIVE cveAlias(_)
cveAlias(aliases) ==
    IF aliases = << >> THEN ""
    ELSE IF HasPrefix(Head(aliases), "CVE-") THEN Head(aliases)
    ELSE cveAlias(Tail(aliases))

\* The text is the sequence of its parts: "%s %s" gives two.
renderVulnerabilityID(supported, vuln) ==
    LET cveID == cveAlias(vuln.Aliases)
    IN IF cveID = ""
       THEN <<hyperlinkVulnerabilityID(supported, vuln.ID)>>
       ELSE <<hyperlinkVulnerabilityID(supported, cveID),
              Render(styleSubtle, hyperlinkVulnerabilityID(supported, vuln.ID))>>

renderFixedIn(vuln) ==
    IF vuln.FixedVersion = "" THEN << >>
    ELSE <<" fixed in ", vuln.FixedVersion>>

\* treeStem + "(file) " + location
locationLine(treeStem, location) ==
    [kind |-> "location", treeStem |-> treeStem, location |-> location]

\* verticalLine + "(package) " + Name Version (Type)
packageLine(verticalLine, pkg) ==
    [kind |-> "package", verticalLine |-> verticalLine, Name |-> pkg.Name,
     Version |-> pkg.Version,
     Type |-> Render(styleSubtle, <<"(", pkg.Type, ")">>)]

\* verticalLine + severity id fixedIn
findingLine(verticalLine, supported, f) ==
    [kind |-> "finding", verticalLine |-> verticalLine,
     severity |-> renderSeverity(f.Vulnerability.Severity),
     id |-> renderVulnerabilityID(supported, f.Vulnerability),
     fixedIn |-> renderFixedIn(f.Vulnerability)]

\* the line that closes a location's block
closingLine(verticalLine) == [kind |-> "closing", verticalLine |-> verticalLine]

(***************************************************************************)
(* findingsTree                                                            *)
(***************************************************************************)

\* a Go map with no key
emptyMap == [k \in {} |-> k]

\* m[k] = v
put(m, k, v) == (k :> v) @@ m

\* m[k] of a map of slices: nil for a missing key
slice(m, k) == IF k \in DOMAIN m THEN m[k] ELSE << >>

emptyTree == [findingsByPackageByLocation |-> emptyMap, packagesByID |-> emptyMap]

\* One pass of the loop of newFindingsTree with the package record written
\* only for an ID not yet in packagesByID.
addFindingFirst(t, f) ==
    LET loc == f.Package.Location
        packageID == f.Package.ID
        packagesByID == IF packageID \in DOMAIN t.packagesByID
                        THEN t.packagesByID
                        ELSE put(t.packagesByID, packageID, f.Package)
        tree == IF loc \in DOMAIN t.findingsByPackageByLocation
                THEN t.findingsByPackageByLocation
                ELSE put(t.findingsByPackageByLocation, loc, emptyMap)
    IN [findingsByPackageByLocation |->
            put(tree, loc, put(tree[loc], packageID,
                               Append(slice(tree[loc], packageID), f))),
        packagesByID |-> packagesByID]

\* One pass of the loop of newFindingsTree with the inner map made anew
\* for every finding.
addFindingFresh(t, f) ==
    LET loc == f.Package.Location
        packageID == f.Package.ID
        packagesByID == put(t.packagesByID, packageID, f.Package)
        tree == put(t.findingsByPackageByLocation, loc, emptyMap)
    IN [findingsByPackageByLocation |->
            put(tree, loc, put(tree[loc], packageID,
                               Append(slice(tree[loc], packageID), f))),
        packagesByID |-> packagesByID]

\* One pass of the loop of newFindingsTree.
addFinding(t, f) ==
    LET loc == f.Package.Location
        packageID == f.Package.ID
        packagesByID == put(t.packagesByID, packageID, f.Package)
        tree == IF loc \in DOMAIN t.findingsByPackageByLocation
                THEN t.findingsByPackageByLocation
                ELSE put(t.findingsByPackageByLocation, loc, emptyMap)
    IN [findingsByPackageByLocation |->
            put(tree, loc, put(tree[loc], packageID,
                               Append(slice(tree[loc], packageID), f))),
        packagesByID |-> packagesByID]

newFindingsTree(fs) ==
    LET loop[i \in 0..Len(fs)] ==
            IF i = 0 THEN emptyTree ELSE addFinding(loop[i - 1], fs[i])
    IN loop[Len(fs)]

\* less of the sort of the packages with its arguments exchanged.
packageLessReversed(a, b) == stringLess(b.Name, a.Name)

\* less of sort.SliceStable(packages, ...): by Name
packageLess(a, b) == stringLess(a.Name, b.Name)

\* less of the sort of the findings with <= for <: equal IDs are swapped.
findingLessOrEqual(a, b) == ~stringLess(b.Vulnerability.ID, a.Vulnerability.ID)

\* less of sort.SliceStable(findings, ...): by Vulnerability.ID
findingLess(a, b) == stringLess(a.Vulnerability.ID, b.Vulnerability.ID)

\* The lines of a bucket with a finding left out when the one before it
\* has its Vulnerability.ID.
findingLinesDeduplicated(verticalLine, supported, fs) ==
    LET kept == {i \in 1..Len(fs) :
                    i = 1 \/ fs[i].Vulnerability.ID # fs[i - 1].Vulnerability.ID}
        pick[i \in 0..Len(fs)] ==
            IF i = 0 THEN << >>
            ELSE IF i \in kept
            THEN Append(pick[i - 1], findingLine(verticalLine, supported, fs[i]))
            ELSE pick[i - 1]
    IN pick[Len(fs)]

\* The loop over the (sorted) findings of one package: a line each.
findingLines(verticalLine, supported, fs) ==
    [i \in 1..Len(fs) |-> findingLine(verticalLine, supported, fs[i])]

\* The loop of render over the packages of one location.  keys is the
\* order in which lo.Keys enumerates the location's package IDs.  The
\* findings of a package are sorted in place: the slice taken from the map
\* shares its array with the map's.
renderPackages(t, location, keys, verticalLine, supported) ==
    LET unsorted == [i \in 1..Len(keys) |-> t.packagesByID[keys[i]]]
        packages == SliceStable(unsorted,
                                [a, b \in Range(unsorted) |-> packageLess(a, b)])
        loop[j \in 0..Len(packages)] ==
            IF j = 0
            THEN [lines |-> << >>, tree |-> t.findingsByPackageByLocation]
            ELSE LET before == loop[j - 1]
                     pkg == packages[j]
                     bucket == before.tree[location][pkg.ID]
                     fs == SliceStable(bucket,
                                       [a, b \in Range(bucket) |-> findingLess(a, b)])
                 IN [lines |-> before.lines
                               \o <<packageLine(verticalLine, pkg)>>
                               \o findingLines(verticalLine, supported, fs),
                     tree |-> [before.tree EXCEPT ![location][pkg.ID] = fs]]
    IN loop[Len(packages)]

\* t.render().  locationKeys is the order in which lo.Keys enumerates the
\* locations, packageKeys[location] the order in which it enumerates the
\* location's package IDs.  The result is the lines of the text and the
\* tree as render leaves it.
render(t, locationKeys, packageKeys, supported) ==
    LET locations == sortStrings(locationKeys)
        loop[i \in 0..Len(locations)] ==
            IF i = 0 THEN [lines |-> << >>, tree |-> t]
            ELSE LET before == loop[i - 1]
                     location == locations[i]
                     last == (i = Len(locations))
                     treeStem == IF last THEN "+-- " ELSE "|-- "
                     verticalLine == IF last THEN " " ELSE "|"
                     below == renderPackages(before.tree, location,
                                             packageKeys[location],
                                             verticalLine, supported)
                 IN [lines |-> before.lines
                               \o <<locationLine(treeStem, location)>>
                               \o below.lines
                               \o <<closingLine(verticalLine)>>,
                     tree |-> [before.tree EXCEPT
                                  !.findingsByPackageByLocation = below.tree]]
    IN loop[Len(locations)]

\* The orders in which the package IDs of every location may be enumerated.
PackageKeys(m) ==
    {k \in [DOMAIN m -> UNION {Keys(DOMAIN m[l]) : l \in DOMAIN m}] :
        \A l \in DOMAIN m : k[l] \in Keys(DOMAIN m[l])}

(***************************************************************************)
(* The scan command                                                        *)
(***************************************************************************)

VARIABLES
    termSupportsHyperlinks, \* the package variable, set when the program starts
    requireZeroFindings,    \* the flag --require-zero
    apk,         \* the apk file that the arguments name
    pc,          \* where RunE is: "args", "scanned", "built", "failed"
    findings,    \* the result of scan.APK for the current argument
    tree,        \* the findingsTree of the current argument
    out,         \* the lines printed for the current argument
    prev         \* the lines printed for the argument before

vars == <<termSupportsHyperlinks, requireZeroFindings, apk, pc, findings,
          tree, out, prev>>

Init ==
    /\ termSupportsHyperlinks \in BOOLEAN
    /\ requireZeroFindings \in BOOLEAN
    /\ apk \in APKs
    /\ pc = "args"
    /\ findings = << >>
    /\ tree = emptyTree
    /\ out = << >>
    /\ prev = << >>

\* The next argument is opened and scanned.  Every argument names the same
\* file, so that what is printed for one can be compared with what is
\* printed for the next.
ScanAPK ==
    /\ pc = "args"
    /\ findings' = scanAPK(apk)
    /\ prev' = out
    /\ tree' = emptyTree
    /\ out' = << >>
    /\ pc' = "scanned"
    /\ UNCHANGED <<termSupportsHyperlinks, requireZeroFindings, apk>>

\* len(findings) == 0: the message is printed, and the loop goes on.
NoVulnerabilities ==
    /\ pc = "scanned"
    /\ Len(findings) = 0
    /\ out' = <<[kind |-> "message", text |-> "No vulnerabilities found"]>>
    /\ pc' = "args"
    /\ UNCHANGED <<termSupportsHyperlinks, requireZeroFindings, apk, findings,
                   tree, prev>>

\* tree := newFindingsTree(findings)
NewFindingsTree ==
    /\ pc = "scanned"
    /\ Len(findings) > 0
    /\ tree' = newFindingsTree(findings)
    /\ pc' = "built"
    /\ UNCHANGED <<termSupportsHyperlinks, requireZeroFindings, apk, findings,
                   out, prev>>

\* fmt.Println(tree.render()), then the test of --require-zero.
PrintTree ==
    /\ pc = "built"
    /\ \E locationKeys \in Keys(DOMAIN tree.findingsByPackageByLocation),
          packageKeys \in PackageKeys(tree.findingsByPackageByLocation) :
          LET r == render(tree, locationKeys, packageKeys, termSupportsHyperlinks)
          IN /\ out' = r.lines
             /\ tree' = r.tree
    /\ pc' = IF requireZeroFindings THEN "failed" ELSE "args"
    /\ UNCHANGED <<termSupportsHyperlinks, requireZeroFindings, apk, findings,
                   prev>>

Next == ScanAPK \/ NoVulnerabilities \/ NewFindingsTree \/ PrintTree

Spec == Init /\ [][Next]_vars

(***************************************************************************)
(* Reading the input and the printed text                                  *)
(***************************************************************************)

\* how often x occurs in the sequence s
count(x, s) == Cardinality({i \in DOMAIN s : s[i] = x})

sameBag(s, t) ==
    /\ Len(s) = Len(t)
    /\ \A x \in Range(s) \cup Range(t) : count(x, s) = count(x, t)

\* the elements of a set of numbers, increasing
increasing(S) ==
    [k \in 1..Cardinality(S) |->
        CHOOSE i \in S : Cardinality({j \in S : j < i}) = k - 1]

\* The tree of the current argument has been printed.
Rendered == pc \in {"args", "failed"} /\ Len(findings) > 0 /\ out # << >>

\* the lines of one kind, by their numbers
linesOf(o, kind) == {i \in DOMAIN o : o[i].kind = kind}

\* the locations of the location lines, in the order printed
locationSeq(o) ==
    LET at == increasing(linesOf(o, "location"))
    IN [k \in DOMAIN at |-> o[at[k]].location]

\* the number of the nearest line of a kind at or above line i (0: none)
above(o, i, kind) ==
    LET S == {j \in linesOf(o, kind) : j <= i}
    IN IF S = {} THEN 0 ELSE CHOOSE j \in S : \A k \in S : k <= j

\* the package lines below location line li, in the order printed
packageNodes(o, li) ==
    increasing({i \in linesOf(o, "package") : above(o, i, "location") = li})

\* the finding lines below package line pi, in the order printed
findingNodes(o, pi) ==
    LET at == increasing({i \in linesOf(o, "finding") : above(o, i, "package") = pi})
    IN [k \in DOMAIN at |-> o[at[k]]]

\* what a package line shows of a package
shown(line) == <<line.Name, line.Version, line.Type>>
display(pkg) == shown(packageLine(" ", pkg))

locationsOf(fs) == {fs[i].Package.Location : i \in DOMAIN fs}

packageIDsAt(fs, location) ==
    {fs[i].Package.ID : i \in {j \in DOMAIN fs : fs[j].Package.Location = location}}

\* the findings of one location and package ID, in input order
bucketOf(fs, location, id) ==
    LET at == increasing({i \in DOMAIN fs : /\ fs[i].Package.Location = location
                                            /\ fs[i].Package.ID = id})
    IN [k \in DOMAIN at |-> fs[at[k]]]

firstWith(fs, id) ==
    fs[CHOOSE i \in DOMAIN fs : /\ fs[i].Package.ID = id
                                /\ \A j \in 1..(i - 1) : fs[j].Package.ID # id]

lastWith(fs, id) ==
    fs[CHOOSE i \in DOMAIN fs : /\ fs[i].Package.ID = id
                                /\ \A j \in (i + 1)..Len(fs) : fs[j].Package.ID # id]

\* b in non-decreasing order of Vulnerability.ID, equal IDs in the order of
\* b: element i goes to the place after the smaller ones and the equal
\* ones before it.
byVulnerabilityID(b) ==
    LET place(i) ==
            1 + Cardinality({j \in DOMAIN b :
                    \/ stringLess(b[j].Vulnerability.ID, b[i].Vulnerability.ID)
                    \/ j < i /\ b[j].Vulnerability.ID = b[i].Vulnerability.ID})
    IN [k \in DOMAIN b |-> b[CHOOSE i \in DOMAIN b : place(i) = k]]

\* the lines of the findings b, one each, in the order of b
linesFor(verticalLine, b) ==
    [i \in DOMAIN b |-> findingLine(verticalLine, termSupportsHyperlinks, b[i])]

\* the bytes of s begin with "CVE-" / "GHSA-"
beginsCVE(s) ==
    /\ Len(bytes[s]) >= 4
    /\ <<bytes[s][1], bytes[s][2], bytes[s][3], bytes[s][4]>> = <<67, 86, 69, 45>>

beginsGHSA(s) ==
    /\ Len(bytes[s]) >= 5
    /\ <<bytes[s][1], bytes[s][2], bytes[s][3], bytes[s][4], bytes[s][5]>>
           = <<71, 72, 83, 65, 45>>

\* the buckets of a tree, as <<location, package ID>>
bucketsOf(m) ==
    UNION {{<<l, p>> : p \in DOMAIN m[l]} : l \in DOMAIN m}

(***************************************************************************)
(* C1                                                                      *)
(***************************************************************************)

\* C1: after newFindingsTree(findings) the lengths of the buckets add up to
\* len(findings), and every finding is in the bucket of its own
\* Package.Location and Package.ID as often as it is in the input, and in
\* no other bucket; the tree of no findings has no bucket.
C1_GroupingComplete ==
    /\ bucketsOf(newFindingsTree(<< >>).findingsByPackageByLocation) = {}
    /\ pc = "built" =>
         LET m == tree.findingsByPackageByLocation
             slots == UNION {{<<b, i>> : i \in DOMAIN m[b[1]][b[2]]} : b \in bucketsOf(m)}
         IN /\ Cardinality(slots) = Len(findings)
            /\ \A f \in Range(findings) :
                 /\ <<f.Package.Location, f.Package.ID>> \in bucketsOf(m)
                 /\ \A b \in bucketsOf(m) :
                      count(f, m[b[1]][b[2]]) =
                          IF b = <<f.Package.Location, f.Package.ID>>
                          THEN count(f, findings) ELSE 0

\* A tree with two findings in one bucket and a finding whose Location and
\* Package.ID are empty.
C1_Witness ==
    /\ pc = "built"
    /\ Len(findings) = 3
    /\ LET m == tree.findingsByPackageByLocation
       IN /\ <<"", "">> \in bucketsOf(m)
          /\ \E b \in bucketsOf(m) : Len(m[b[1]][b[2]]) = 2

(***************************************************************************)
(* C2                                                                      *)
(***************************************************************************)

\* C2: the location nodes printed are the distinct Package.Locations of the
\* findings, each once, in strictly increasing order, a sequence that the
\* set of locations fixes, whatever the order of the findings and of the
\* map's keys; and it is the sequence printed for the argument before.
C2_LocationOrder ==
    Rendered =>
        LET L == locationSeq(out)
        IN /\ \A i, j \in DOMAIN L : i < j => stringLess(L[i], L[j])
           /\ Range(L) = locationsOf(findings)
           /\ prev # << >> => locationSeq(prev) = L

\* Three locations, found in decreasing order, printed a second time.
C2_Witness ==
    /\ Rendered
    /\ prev # << >>
    /\ Len(findings) = 3
    /\ findings[1].Package.Location = "/a/b"
    /\ findings[2].Package.Location = "/a"
    /\ findings[3].Package.Location = ""
    /\ locationSeq(out) = <<"", "/a", "/a/b">>

(***************************************************************************)
(* C3                                                                      *)
(***************************************************************************)

\* C3: below every location node there is one package node for each
\* distinct Package.ID found at the location, and the Names shown are in
\* non-decreasing order.
C3_PackageOrder ==
    Rendered =>
        \A li \in linesOf(out, "location") :
            LET P == packageNodes(out, li)
            IN /\ Len(P) = Cardinality(packageIDsAt(findings, out[li].location))
               /\ \A k \in 1..(Len(P) - 1) :
                    ~stringLess(out[P[k + 1]].Name, out[P[k]].Name)

\* "foo" is found before "bar" at one location, and "bar" is printed first.
C3_Witness ==
    /\ Rendered
    /\ Len(findings) >= 2
    /\ findings[1].Package = pkgFoo
    /\ findings[2].Package = pkgBar
    /\ \E li \in linesOf(out, "location") :
          LET P == packageNodes(out, li)
          IN Len(P) = 2 /\ out[P[1]].Name = "bar" /\ out[P[2]].Name = "foo"

(***************************************************************************)
(* C4                                                                      *)
(***************************************************************************)

\* the package nodes below every location node show, for each package ID
\* found at the location, the package of the finding that pick chooses:
\* the first ("first") or the last with the ID
packageNodesShow(pick) ==
    \A li \in linesOf(out, "location") :
        LET P == packageNodes(out, li)
            ids == packageIDsAt(findings, out[li].location)
            want(id) == display((IF pick = "first" THEN firstWith(findings, id)
                                 ELSE lastWith(findings, id)).Package)
        IN \A d \in {shown(out[P[k]]) : k \in DOMAIN P} \cup {want(id) : id \in ids} :
              Cardinality({k \in DOMAIN P : shown(out[P[k]]) = d})
                  = Cardinality({id \in ids : want(id) = d})

\* C4 as stated: the package record kept for an ID, and shown on its nodes,
\* is that of the first finding with the ID.
C4_FirstWriterWins ==
    /\ pc = "built" =>
         \A id \in DOMAIN tree.packagesByID :
            tree.packagesByID[id] = firstWith(findings, id).Package
    /\ Rendered => packageNodesShow("first")

\* C4 amended: the package record kept for an ID, and shown on its nodes,
\* is that of the last finding with the ID; and every package ID of every
\* location has a record, kept under its own ID, so that render finds the
\* record and the bucket of every node.
C4_LastWriterWins ==
    /\ pc = "built" =>
         LET m == tree.findingsByPackageByLocation
         IN \A b \in bucketsOf(m) :
               /\ b[2] \in DOMAIN tree.packagesByID
               /\ tree.packagesByID[b[2]].ID = b[2]
               /\ m[b[1]][b[2]] # << >>
    /\ pc = "built" =>
         /\ DOMAIN tree.packagesByID = {f.Package.ID : f \in Range(findings)}
         /\ \A id \in DOMAIN tree.packagesByID :
               tree.packagesByID[id] = lastWith(findings, id).Package
    /\ Rendered => packageNodesShow("last")

\* Two findings of one package ID whose Names differ have been printed.
C4_Witness ==
    /\ Rendered
    /\ Len(findings) >= 2
    /\ findings[1].Package = pkgFoo
    /\ findings[2].Package = pkgBaz
    /\ \E i \in linesOf(out, "package") : out[i].Name = "baz"

(***************************************************************************)
(* C5                                                                      *)
(***************************************************************************)

\* C5: the package nodes below a location node can be matched one to one
\* with the package IDs found there so that the lines below each node are
\* those of the ID's findings in non-decreasing order of Vulnerability.ID,
\* findings of equal Vulnerability.ID in input order.
C5_VulnerabilityOrder ==
    Rendered =>
        \A li \in linesOf(out, "location") :
            LET P == packageNodes(out, li)
                location == out[li].location
            IN \E ids \in Keys(packageIDsAt(findings, location)) :
                 /\ Len(ids) = Len(P)
                 /\ \A k \in DOMAIN P :
                      findingNodes(out, P[k]) =
                          linesFor(out[P[k]].verticalLine,
                                   byVulnerabilityID(bucketOf(findings, location, ids[k])))

\* One package with two findings of one Vulnerability.ID, then a finding of
\* a smaller one, printed with the smaller one first.
C5_Witness ==
    /\ Rendered
    /\ findings = <<Findings[1], Findings[2], Findings[3]>>
    /\ LET P == packageNodes(out, 1)
       IN /\ Len(P) = 1
          /\ findingNodes(out, P[1]) =
                linesFor(" ", <<Findings[3], Findings[1], Findings[2]>>)

(***************************************************************************)
(* C6                                                                      *)
(***************************************************************************)

\* the identifier of a vulnerability as C6 has it
identifierOf(vuln) ==
    LET cve == {i \in DOMAIN vuln.Aliases : beginsCVE(vuln.Aliases[i])}
        first == CHOOSE i \in cve : \A j \in cve : i <= j
        native == hyperlinkVulnerabilityID(termSupportsHyperlinks, vuln.ID)
    IN IF cve = {} THEN <<native>>
       ELSE <<hyperlinkVulnerabilityID(termSupportsHyperlinks, vuln.Aliases[first]),
              [style |-> styleSubtle, body |-> native]>>

\* C6: the identifiers printed are those of the findings' vulnerabilities:
\* the first alias beginning with "CVE-", followed by the native ID in the
\* subtle style; the native ID alone and unstyled when no alias begins
\* with "CVE-".
C6_IdentifierPrecedence ==
    Rendered =>
        {out[i].id : i \in linesOf(out, "finding")}
            = {identifierOf(f.Vulnerability) : f \in Range(findings)}

\* A vulnerability with a CVE alias after another alias, one with two CVE
\* aliases and one with none have been printed.
C6_Witness ==
    /\ Rendered
    /\ {vulnGHSA, vulnGHSA2, vulnOSV} = {f.Vulnerability : f \in Range(findings)}
    /\ \E i \in linesOf(out, "finding") : out[i].id[1].text = "CVE-3"
    /\ \E i \in linesOf(out, "finding") : out[i].id[1].text = "CVE-1"
    /\ \E i \in linesOf(out, "finding") : out[i].id = <<Link("OSV-9", << >>)>>

(***************************************************************************)
(* C7                                                                      *)
(***************************************************************************)

\* the identifiers, hyperlinked or not, of a finding line
linksOf(line) ==
    {IF "body" \in DOMAIN line.id[k] THEN line.id[k].body ELSE line.id[k] :
        k \in DOMAIN line.id}

hyperlinkGated ==
    Rendered =>
        \A i \in linesOf(out, "finding") : \A l \in linksOf(out[i]) :
            l.url = IF termSupportsHyperlinks /\ beginsCVE(l.text)
                    THEN <<"https://nvd.nist.gov/vuln/detail/", l.text>>
                    ELSE IF termSupportsHyperlinks /\ beginsGHSA(l.text)
                    THEN <<"https://github.com/advisories/", l.text>>
                    ELSE << >>

\* C7: every identifier printed is plain when the flag is false or the
\* identifier begins with neither "CVE-" nor "GHSA-", and else links to
\* the NVD page (CVE-) or the GitHub advisory (GHSA-) of the identifier;
\* and no step changes the flag.
C7_HyperlinkGating ==
    /\ []hyperlinkGated
    /\ [][termSupportsHyperlinks' = termSupportsHyperlinks]_vars

\* With the flag true, a CVE link, a GHSA link and a plain identifier
\* have been printed.
C7_Witness ==
    /\ Rendered
    /\ termSupportsHyperlinks
    /\ LET links == UNION {linksOf(out[i]) : i \in linesOf(out, "finding")}
       IN /\ Link("CVE-1", <<"https://nvd.nist.gov/vuln/detail/", "CVE-1">>) \in links
          /\ Link("GHSA-x", <<"https://github.com/advisories/", "GHSA-x">>) \in links
          /\ Link("OSV-9", << >>) \in links

(***************************************************************************)
(* C8                                                                      *)
(***************************************************************************)

\* C8 as stated: render leaves the tree (locations, package IDs, package
\* records, and every bucket's findings and their order) as it was.
C8_RenderLeavesTree == [][pc = "built" => tree' = tree]_vars

(***************************************************************************)
(* C9                                                                      *)
(***************************************************************************)

\* C9: there are len(findings) finding lines; every location found has one
\* location node; the package nodes below it can be matched one to one
\* with the package IDs found there so that each node shows the metadata
\* of a finding of its ID and has below it the lines of exactly the
\* findings of that location and ID, each as often as it was found.
C9_EveryFindingOnce ==
    Rendered =>
        /\ Cardinality(linesOf(out, "finding")) = Len(findings)
        /\ Cardinality(linesOf(out, "location")) = Cardinality(locationsOf(findings))
        /\ Range(locationSeq(out)) = locationsOf(findings)
        /\ \A i \in linesOf(out, "finding") :
              above(out, i, "package") > above(out, i, "location")
        /\ \A li \in linesOf(out, "location") :
              LET P == packageNodes(out, li)
                  location == out[li].location
              IN \E ids \in Keys(packageIDsAt(findings, location)) :
                   /\ Len(ids) = Len(P)
                   /\ \A k \in DOMAIN P :
                        LET b == bucketOf(findings, location, ids[k])
                        IN /\ shown(out[P[k]]) \in
                                {display(f.Package) :
                                    f \in {g \in Range(findings) : g.Package.ID = ids[k]}}
                           /\ sameBag(findingNodes(out, P[k]),
                                      linesFor(out[P[k]].verticalLine, b))

\* One package ID at two locations, with two findings of one
\* Vulnerability.ID at one of them.
C9_Witness ==
    /\ Rendered
    /\ Len(findings) = 3
    /\ {findings[i] : i \in 1..3} = {Findings[1], Findings[2], Findings[7]}
    /\ Cardinality(linesOf(out, "finding")) = 3
    /\ Cardinality(linesOf(out, "location")) = 2

(***************************************************************************)
(* C10                                                                     *)
(***************************************************************************)

\* C10 as stated: what is printed for a list of findings is what was
\* printed for the same list before.
C10_Deterministic == (Rendered /\ prev # << >>) => out = prev

====
